---- MODULE Spec2Model ----
(***************************************************************************)
(* Model of two units of the admin UI:                                     *)
(*   - parsePayloadComponent, the component-descriptor parser              *)
(*     (src/unnamed/part_000);                                             *)
(*   - ListControls, the list view's control panel                         *)
(*     (src/packages/ui/src/elements/ListControls/index.tsx).              *)
(* JavaScript strings are sequences of one-character strings, indexed from *)
(* 0 in the operators that mirror String.prototype methods.                *)
(***************************************************************************)
EXTENDS Integers, Sequences, FiniteSets, TLC

VARIABLES
    \* ---- parsePayloadComponent
    descriptor,             \* the argument PayloadComponent
    result,                 \* the returned value, Pending before the call returns
    \* ---- ListControls: props and provider values
    enableColumns,          \* props.enableColumns
    enableSort,             \* props.enableSort
    where,                  \* useListQuery().query?.where
    locale,                 \* useTranslation(): the language of i18n and t
    listSearchableFields,   \* getTextFieldsToBeSearched(...)
    titleField,             \* useUseTitleField(collectionConfig)
    \* ---- ListControls: hooks
    visibleDrawer,          \* useState
    hasWhereParam,          \* useRef .current
    searchLabelTranslated,  \* useRef .current
    \* ---- ListControls: what the last render returned
    rendered,
    \* ---- ListControls: the event that caused the last render, and the
    \*      value of visibleDrawer when that event arrived
    lastEvent,
    before

parseVars == <<descriptor, result>>
listVars == <<enableColumns, enableSort, where, locale, listSearchableFields,
              titleField, visibleDrawer, hasWhereParam, searchLabelTranslated,
              rendered, lastEvent, before>>
vars == <<descriptor, result, enableColumns, enableSort, where, locale,
          listSearchableFields, titleField, visibleDrawer, hasWhereParam,
          searchLabelTranslated, rendered, lastEvent, before>>

(***************************************************************************)
(* Strings                                                                 *)
(***************************************************************************)
\* Longest descriptor string (path or export name) that is enumerated.
MaxLen == 3

Hash == "#"
Chars == {"a", "/", Hash}

Strings == UNION {[1..n -> Chars] : n \in 0..MaxLen}

Default == <<"d", "e", "f", "a", "u", "l", "t">>

\* s.indexOf('#'): the 0-based index of the first '#', -1 when there is none.
IndexOfHash(s) ==
    IF \E i \in 1..Len(s) : s[i] = Hash
    THEN (CHOOSE i \in 1..Len(s) :
            s[i] = Hash /\ \A j \in 1..(i - 1) : s[j] # Hash) - 1
    ELSE -1

\* s.lastIndexOf('#'): the 0-based index of the last '#', -1 when there is none.
LastIndexOfHash(s) ==
    IF \E i \in 1..Len(s) : s[i] = Hash
    THEN (CHOOSE i \in 1..Len(s) :
            s[i] = Hash /\ \A j \in (i + 1)..Len(s) : s[j] # Hash) - 1
    ELSE -1

\* s.substring(from, to) for 0 <= from <= to <= s.length.
Substring(s, from, to) == SubSeq(s, from + 1, to)

(***************************************************************************)
(* parsePayloadComponent                                                   *)
(***************************************************************************)
NullDescriptor == [type |-> "null"]
UndefinedDescriptor == [type |-> "undefined"]
StringDescriptor(s) == [type |-> "string", str |-> s]

\* An object descriptor carries the optional exportName field or not.
ObjectDescriptors ==
    {[type |-> "object", path |-> p] : p \in Strings}
        \cup {[type |-> "object", path |-> p, exportName |-> e] :
                p \in Strings, e \in Strings}

Descriptors ==
    {NullDescriptor, UndefinedDescriptor}
        \cup {StringDescriptor(s) : s \in Strings}
        \cup ObjectDescriptors

Pending == [type |-> "pending"]
NullResult == [type |-> "null"]
Record(e, p) == [type |-> "record", exportName |-> e, path |-> p]

\* A test that lets the empty string through: PayloadComponent == null.
IsNullish(d) == d.type \in {"null", "undefined"}

\* !PayloadComponent: null, undefined and the empty string are falsy, every
\* object is truthy.
IsFalsy(d) ==
    \/ d.type \in {"null", "undefined"}
    \/ d.type = "string" /\ d.str = <<>>

PathAndMaybeExport(d) == IF d.type = "string" THEN d.str ELSE d.path

LastHashIndex(s) == LastIndexOfHash(s)

\* An off-by-one that keeps the '#' in the export name.
SuffixWithHash(s, lastHashIndex) == Substring(s, lastHashIndex, Len(s))

SuffixAfter(s, lastHashIndex) == Substring(s, lastHashIndex + 1, Len(s))

PrefixBefore(s, lastHashIndex) == Substring(s, 0, lastHashIndex)

\* An override that takes any present field, the empty one included.
HasExportNamePresent(d) == d.type = "object" /\ "exportName" \in DOMAIN d

\* typeof PayloadComponent === 'object' && PayloadComponent.exportName:
\* the field is there and is not the empty string.
HasExportName(d) ==
    /\ d.type = "object"
    /\ "exportName" \in DOMAIN d
    /\ d.exportName # <<>>

parsePayloadComponent(d) ==
    IF IsFalsy(d) THEN NullResult
    ELSE
        LET pathAndMaybeExport == PathAndMaybeExport(d)
            lastHashIndex == LastHashIndex(pathAndMaybeExport)
            split == lastHashIndex > 0
            path == IF split
                    THEN PrefixBefore(pathAndMaybeExport, lastHashIndex)
                    ELSE pathAndMaybeExport
            suffix == IF split
                      THEN SuffixAfter(pathAndMaybeExport, lastHashIndex)
                      ELSE Default
            exportName == IF HasExportName(d) THEN d.exportName ELSE suffix
        IN  Record(exportName, path)

\* The call: the caller's descriptor goes in, the value comes back.
Parse ==
    /\ result = Pending
    /\ result' = parsePayloadComponent(descriptor)
    /\ UNCHANGED <<descriptor>>
    /\ UNCHANGED listVars

(***************************************************************************)
(* ListControls: the values the component reads                            *)
(***************************************************************************)
\* Most searchable fields a collection configures.
MaxFields == 3

Undefined == "undefined"
Drawers == {"columns", "where", "sort"}
Locales == {"en", "pl"}

\* query.where: absent, or an `or` list of `and` groups, each given by the
\* number of its conditions.
NoWhere == [type |-> "undefined"]
WhereValues ==
    {NoWhere} \cup {[type |-> "where", or |-> g] : g \in {<<>>, <<0>>, <<1>>}}

\* validateWhereQuery(query?.where): the filter has a first `or` group that
\* holds a condition.
validateWhereQuery(w) ==
    /\ w.type = "where"
    /\ Len(w.or) > 0
    /\ w.or[1] > 0

\* Boolean(query?.where): every object is truthy.
BooleanWhere(w) == w.type # "undefined"

\* A field's label: absent, a plain string, or one string per language.
NoLabel == [tag |-> "absent"]
StrLabel(s) == [tag |-> "str", str |-> s]
ObjLabel(f) == [tag |-> "obj", obj |-> f]

AllFields ==
    << [name |-> "title", label |-> ObjLabel([en |-> "Title", pl |-> "Tytul"])],
       [name |-> "body", label |-> NoLabel],
       [name |-> "slug", label |-> StrLabel("Slug")],
       [name |-> "tags", label |-> NoLabel] >>

NullField == [name |-> "", label |-> NoLabel, absent |-> TRUE]

\* The searchable fields: at most MaxFields fields of the collection, in the
\* collection's order.
FieldLists ==
    UNION { {[i \in 1..n |-> AllFields[f[i]]] :
                f \in {g \in [1..n -> 1..Len(AllFields)] :
                         \A i, j \in 1..n : i < j => g[i] < g[j]}} :
            n \in 0..MaxFields }

TitleFields == {NullField, AllFields[1], AllFields[2]}

\* The strings of the translation files the component asks for.
Translations ==
    [en |-> [searchBy |-> "Search by ", or |-> "or"],
     pl |-> [searchBy |-> "Szukaj wedlug ", or |-> "lub"]]

\* getTranslation(label, i18n): a string as it is, an object by language.
getTranslation(label, lang) ==
    IF label.tag = "obj" THEN label.obj[lang] ELSE label.str

\* t('general:searchBy', { label }), as the pieces of the string.
SearchBy(lang, label) == <<Translations[lang].searchBy, label>>

\* t('general:or')
Or(lang) == Translations[lang].or

\* 'label' in field && field.label ? field.label : field.name
LabelOrName(field) ==
    IF field.label.tag # "absent" THEN field.label ELSE StrLabel(field.name)

\* const searchLabel: the title field's label, 'ID' without a title field.
searchLabel(title, lang) ==
    IF title = NullField THEN "ID"
    ELSE getTranslation(LabelOrName(title), lang)

\* The initial value of the searchLabelTranslated ref.
InitialSearchLabel(title, lang) == SearchBy(lang, searchLabel(title, lang))

\* The reducer of the label effect, i counted from 0.
ReduceStep(placeholderText, field, i, n, lang) ==
    LET label == getTranslation(LabelOrName(field), lang)
    IN  IF i = 0 THEN SearchBy(lang, label)
        ELSE IF i = n - 1
             THEN placeholderText \o <<" ", Or(lang), " ", label>>
             ELSE placeholderText \o <<", ", label>>

RECURSIVE Reduce(_, _, _, _)
Reduce(fields, i, placeholderText, lang) ==
    IF i = Len(fields) THEN placeholderText
    ELSE Reduce(fields, i + 1,
                ReduceStep(placeholderText, fields[i + 1], i, Len(fields), lang),
                lang)

\* The effect that writes searchLabelTranslated.current.
LabelEffect(fields, lang, title) ==
    IF Len(fields) > 0
    THEN Reduce(fields, 0, <<>>, lang)
    ELSE SearchBy(lang, searchLabel(title, lang))

\* An effect on query.where that also moves the drawer with the filter.
WhereEffectMovingDrawer(has, w, drawer) ==
    IF has /\ ~BooleanWhere(w)
    THEN [has |-> FALSE, drawer |-> Undefined]
    ELSE IF BooleanWhere(w)
         THEN [has |-> TRUE, drawer |-> "where"]
         ELSE [has |-> has, drawer |-> drawer]

\* The effect on query.where: it writes hasWhereParam.current alone.
WhereEffect(has, w, drawer) ==
    IF has /\ ~BooleanWhere(w)
    THEN [has |-> FALSE, drawer |-> drawer]
    ELSE IF BooleanWhere(w)
         THEN [has |-> TRUE, drawer |-> drawer]
         ELSE [has |-> has, drawer |-> drawer]

\* A drawer opened by any where parameter, valid or not.
OpenedByAnyWhere(w) == BooleanWhere(w)

\* const shouldInitializeWhereOpened
shouldInitializeWhereOpened(w) == validateWhereQuery(w)

\* The initial value of the visibleDrawer state.
InitialDrawer(w) ==
    IF shouldInitializeWhereOpened(w) THEN "where" ELSE Undefined

\* A toggle that closes whatever is open instead of switching.
ToggleClosingAny(current, d) == IF current = Undefined THEN d ELSE Undefined

\* The argument of setVisibleDrawer in the onClick of drawer d's pill.
Toggle(current, d) == IF current # d THEN d ELSE Undefined

\* A height that opens every region while some drawer is open.
HeightOfAnyOpen(drawer, region) == IF drawer # Undefined THEN "auto" ELSE "zero"

\* The height prop of a region's AnimateHeight.
HeightOf(drawer, region) == IF drawer = region THEN "auto" ELSE "zero"

\* The returned tree: the label of the SearchFilter, the toggles, and the
\* three collapsible regions ("absent" for one that is not rendered).
Render(ec, es, drawer, label) ==
    [label |-> label,
     pills |-> (IF ec THEN {"columns"} ELSE {}) \cup {"where"}
                   \cup (IF es THEN {"sort"} ELSE {}),
     columns |-> IF ec THEN HeightOf(drawer, "columns") ELSE "absent",
     where |-> HeightOf(drawer, "where"),
     sort |-> IF es THEN HeightOf(drawer, "sort") ELSE "absent"]

Event(kind, d) == [kind |-> kind, drawer |-> d]

(***************************************************************************)
(* ListControls: mount, and the render that follows every event            *)
(***************************************************************************)
\* The first render of a mounted component and the effects after it.
Mounted(ec, es, w, lang, fields, title) ==
    LET label == InitialSearchLabel(title, lang)
        drawer == InitialDrawer(w)
        effect == WhereEffect(BooleanWhere(w), w, drawer)
    IN  [visibleDrawer |-> effect.drawer,
         hasWhereParam |-> effect.has,
         searchLabelTranslated |-> LabelEffect(fields, lang, title),
         rendered |-> Render(ec, es, effect.drawer, label)]

\* A render with the new props, provider values and state, then the effects
\* whose dependencies changed.
Commit(ec, es, w, lang, fields, drawer, event) ==
    LET effect == IF w # where
                  THEN WhereEffect(hasWhereParam, w, drawer)
                  ELSE [has |-> hasWhereParam, drawer |-> drawer]
    IN  /\ enableColumns' = ec
        /\ enableSort' = es
        /\ where' = w
        /\ locale' = lang
        /\ listSearchableFields' = fields
        /\ visibleDrawer' = effect.drawer
        /\ hasWhereParam' = effect.has
        /\ searchLabelTranslated' =
              IF lang # locale \/ fields # listSearchableFields
              THEN LabelEffect(fields, lang, titleField)
              ELSE searchLabelTranslated
        /\ rendered' = Render(ec, es, effect.drawer, searchLabelTranslated)
        /\ lastEvent' = event
        /\ before' = visibleDrawer
        /\ UNCHANGED titleField
        /\ UNCHANGED parseVars

Click(d) ==
    /\ d \in rendered.pills
    /\ Commit(enableColumns, enableSort, where, locale, listSearchableFields,
              Toggle(visibleDrawer, d), Event("click", d))

ClickColumns == Click("columns")
ClickWhere == Click("where")
ClickSort == Click("sort")

SetEnableColumns ==
    \E b \in BOOLEAN :
        /\ b # enableColumns
        /\ Commit(b, enableSort, where, locale, listSearchableFields,
                  visibleDrawer, Event("props", Undefined))

SetEnableSort ==
    \E b \in BOOLEAN :
        /\ b # enableSort
        /\ Commit(enableColumns, b, where, locale, listSearchableFields,
                  visibleDrawer, Event("props", Undefined))

SetQueryWhere ==
    \E w \in WhereValues :
        /\ w # where
        /\ Commit(enableColumns, enableSort, w, locale, listSearchableFields,
                  visibleDrawer, Event("query", Undefined))

SetLocale ==
    \E lang \in Locales :
        /\ lang # locale
        /\ Commit(enableColumns, enableSort, where, lang, listSearchableFields,
                  visibleDrawer, Event("locale", Undefined))

SetListSearchableFields ==
    \E fields \in FieldLists :
        /\ fields # listSearchableFields
        /\ Commit(enableColumns, enableSort, where, locale, fields,
                  visibleDrawer, Event("config", Undefined))

\* A render caused by the parent or a provider with nothing changed.
Rerender ==
    Commit(enableColumns, enableSort, where, locale, listSearchableFields,
           visibleDrawer, Event("rerender", Undefined))

\* Navigation: the component is mounted afresh.
Remount ==
    LET m == Mounted(enableColumns, enableSort, where, locale,
                     listSearchableFields, titleField)
    IN  /\ visibleDrawer' = m.visibleDrawer
        /\ hasWhereParam' = m.hasWhereParam
        /\ searchLabelTranslated' = m.searchLabelTranslated
        /\ rendered' = m.rendered
        /\ lastEvent' = Event("mount", Undefined)
        /\ before' = Undefined
        /\ UNCHANGED <<enableColumns, enableSort, where, locale,
                       listSearchableFields, titleField>>
        /\ UNCHANGED parseVars

(***************************************************************************)
(* Specifications                                                          *)
(***************************************************************************)
ListInit ==
    /\ enableColumns \in BOOLEAN
    /\ enableSort \in BOOLEAN
    /\ where \in WhereValues
    /\ locale \in Locales
    /\ listSearchableFields \in FieldLists
    /\ titleField \in TitleFields
    /\ LET m == Mounted(enableColumns, enableSort, where, locale,
                        listSearchableFields, titleField)
       IN  /\ visibleDrawer = m.visibleDrawer
           /\ hasWhereParam = m.hasWhereParam
           /\ searchLabelTranslated = m.searchLabelTranslated
           /\ rendered = m.rendered
    /\ lastEvent = Event("mount", Undefined)
    /\ before = Undefined

\* The panel on its own: no descriptor is being parsed.
Init ==
    /\ ListInit
    /\ descriptor = UndefinedDescriptor
    /\ result = Pending

Next ==
    \/ ClickColumns
    \/ ClickWhere
    \/ ClickSort
    \/ SetEnableColumns
    \/ SetEnableSort
    \/ SetQueryWhere
    \/ SetLocale
    \/ SetListSearchableFields
    \/ Rerender
    \/ Remount

Spec == Init /\ [][Next]_vars

\* The parser on its own: any descriptor, one call.
ParseInit ==
    /\ descriptor \in Descriptors
    /\ result = Pending
    /\ enableColumns = TRUE
    /\ enableSort = FALSE
    /\ where = NoWhere
    /\ locale = "en"
    /\ listSearchableFields = <<>>
    /\ titleField = NullField
    /\ LET m == Mounted(enableColumns, enableSort, where, locale,
                        listSearchableFields, titleField)
       IN  /\ visibleDrawer = m.visibleDrawer
           /\ hasWhereParam = m.hasWhereParam
           /\ searchLabelTranslated = m.searchLabelTranslated
           /\ rendered = m.rendered
    /\ lastEvent = Event("mount", Undefined)
    /\ before = Undefined

ParseNext == Parse

ParseSpec == ParseInit /\ [][ParseNext]_vars

(***************************************************************************)
(* Properties of parsePayloadComponent (checked under ParseSpec)           *)
(***************************************************************************)
Returned == result # Pending

\* The 1-based positions of s that hold a '#' at a 0-based index above 0.
SeparatorPositions(s) == {i \in 2..Len(s) : s[i] = Hash}

HasSeparator(s) == SeparatorPositions(s) # {}

SeparatorPosition(s) ==
    CHOOSE i \in SeparatorPositions(s) : \A j \in SeparatorPositions(s) : j <= i

\* The path the split rule leaves: everything before the separator.
PathBySplit(s) ==
    IF HasSeparator(s) THEN SubSeq(s, 1, SeparatorPosition(s) - 1) ELSE s

\* The export name the split rule leaves: everything after the separator,
\* "default" without one.
ExportBySplit(s) ==
    IF HasSeparator(s) THEN SubSeq(s, SeparatorPosition(s) + 1, Len(s))
    ELSE Default

\* C1, as stated: every string descriptor, the empty one included, comes
\* back as a record split at the last '#' whose index is above 0, and as
\* the whole string with "default" when there is no such '#'.
C1_SplitEveryString ==
    (Returned /\ descriptor.type = "string") =>
        result = Record(ExportBySplit(descriptor.str), PathBySplit(descriptor.str))

\* C1, amended: every non-empty string descriptor comes back as a record
\* split at the last '#' whose index is above 0, and as the whole string
\* with "default" when there is no such '#'.
C1_SplitNonEmptyString ==
    (Returned /\ descriptor.type = "string" /\ descriptor.str # <<>>) =>
        result = Record(ExportBySplit(descriptor.str), PathBySplit(descriptor.str))

\* "a##" is split at its second '#', and "#a" is not split.
C1_Witness ==
    \/ /\ descriptor = StringDescriptor(<<"a", Hash, Hash>>)
       /\ result = Record(<<>>, <<"a", Hash>>)
    \/ /\ descriptor = StringDescriptor(<<Hash, "a">>)
       /\ result = Record(Default, <<Hash, "a">>)

\* C2: the export name of a returned record is never the empty string.
C2_ExportNameNeverEmpty ==
    (Returned /\ result.type = "record") => result.exportName # <<>>

\* C3, as stated: an object descriptor's path is split by the rule for
\* strings, and the export name is the exportName field whenever the field
\* is present, the split's export name only when it is absent.
C3_FieldWinsWhenPresent ==
    (Returned /\ descriptor.type = "object") =>
        /\ result.type = "record"
        /\ result.path = PathBySplit(descriptor.path)
        /\ result.exportName =
              IF "exportName" \in DOMAIN descriptor
              THEN descriptor.exportName
              ELSE ExportBySplit(descriptor.path)

\* C3, amended: an object descriptor's path is split by the rule for
\* strings, and the export name is the exportName field whenever the field
\* is present and not empty, the split's export name when it is absent or
\* empty.
C3_FieldWinsWhenNonEmpty ==
    (Returned /\ descriptor.type = "object") =>
        /\ result.type = "record"
        /\ result.path = PathBySplit(descriptor.path)
        /\ result.exportName =
              IF "exportName" \in DOMAIN descriptor /\ descriptor.exportName # <<>>
              THEN descriptor.exportName
              ELSE ExportBySplit(descriptor.path)

\* {path: "a#/", exportName: "a"} gives the field, {path: "a#/", exportName: ""}
\* gives the suffix.
C3_Witness ==
    \/ /\ descriptor = [type |-> "object", path |-> <<"a", Hash, "/">>,
                        exportName |-> <<"a">>]
       /\ result = Record(<<"a">>, <<"a">>)
    \/ /\ descriptor = [type |-> "object", path |-> <<"a", Hash, "/">>,
                        exportName |-> <<>>]
       /\ result = Record(<<"/">>, <<"a">>)

\* C4, as stated: null comes back exactly for a null or undefined
\* descriptor; every string and every object gives a record.
C4_NullOnlyForAbsent ==
    Returned =>
        /\ (result = NullResult) <=> (descriptor.type \in {"null", "undefined"})
        /\ (result # NullResult) => result.type = "record"

\* C4, amended: null comes back exactly for a null, undefined or
\* empty-string descriptor; every non-empty string and every object gives a
\* record.
C4_NullOnlyForFalsy ==
    Returned =>
        /\ (result = NullResult) <=>
              \/ descriptor.type \in {"null", "undefined"}
              \/ descriptor = StringDescriptor(<<>>)
        /\ (result # NullResult) => result.type = "record"

\* The empty string has come back as null, or an object with an empty path
\* as a record.
C4_Witness ==
    \/ descriptor = StringDescriptor(<<>>) /\ result = NullResult
    \/ descriptor = [type |-> "object", path |-> <<>>] /\ result = Record(Default, <<>>)

\* C10: a non-empty string with a '#' at an index above 0 is
\* path + '#' + exportName with no '#' in exportName; one without such a '#'
\* is the path; no character is lost or added.
C10_RoundTrip ==
    (Returned /\ descriptor.type = "string" /\ descriptor.str # <<>>) =>
        /\ result.type = "record"
        /\ IF \E i \in 2..Len(descriptor.str) : descriptor.str[i] = Hash
           THEN /\ result.path \o <<Hash>> \o result.exportName = descriptor.str
                /\ \A k \in 1..Len(result.exportName) : result.exportName[k] # Hash
           ELSE result.path = descriptor.str

\* "##a" has come back as path "#" and export name "a".
C10_Witness ==
    /\ descriptor = StringDescriptor(<<Hash, Hash, "a">>)
    /\ result = Record(<<"a">>, <<Hash>>)

(***************************************************************************)
(* Properties of ListControls (checked under Spec)                         *)
(***************************************************************************)
IsClick(e, d) == e.kind = "click" /\ e.drawer = d

\* C5: a click on the toggle of drawer d opens d when d was not the open
\* drawer, whichever other drawer was open, and leaves no drawer open when d
\* was; a second click in a row on a toggle that opened its drawer leaves no
\* drawer open.
C5_RadioToggle ==
    [][\A d \in Drawers :
          IsClick(lastEvent', d) =>
              /\ visibleDrawer' = IF visibleDrawer # d THEN d ELSE Undefined
              /\ (IsClick(lastEvent, d) /\ before # d) => visibleDrawer' = Undefined
      ]_vars

\* A click on the sort toggle has replaced the open filter drawer.
C5_Witness ==
    /\ IsClick(lastEvent, "sort")
    /\ before = "where"
    /\ visibleDrawer = "sort"

OpenRegions == {r \in Drawers : rendered[r] = "auto"}

\* C6: at most one collapsible region is rendered open, and an open region
\* is the value of visibleDrawer.
C6_AtMostOneOpen ==
    /\ Cardinality(OpenRegions) <= 1
    /\ \A r \in OpenRegions : r = visibleDrawer

\* The sort region is open after the columns drawer was, or the open drawer
\* is the columns one while enableColumns is off and nothing is open.
C6_Witness ==
    \/ rendered.sort = "auto" /\ before = "columns"
    \/ visibleDrawer = "columns" /\ ~enableColumns /\ OpenRegions = {}

\* C7: right after mount the open drawer is 'where' when query.where passes
\* validateWhereQuery, and no drawer is open otherwise.
C7_MountOpensValidWhere ==
    lastEvent.kind = "mount" =>
        visibleDrawer = IF validateWhereQuery(where) THEN "where" ELSE Undefined

\* The component has mounted with a where parameter that is not a valid
\* filter, and no drawer is open.
C7_Witness ==
    /\ lastEvent.kind = "mount"
    /\ BooleanWhere(where)
    /\ ~validateWhereQuery(where)
    /\ visibleDrawer = Undefined

\* C8: after mount only a toggle click changes visibleDrawer; a change of
\* the where clause, the locale, the searchable fields or a prop leaves it
\* as it was.
C8_OnlyClicksMoveDrawer ==
    [][visibleDrawer' # visibleDrawer => lastEvent'.kind \in {"click", "mount"}]_vars

\* The where clause was removed while the filter drawer was open, and the
\* drawer is still open with the ref cleared.
C8_Witness ==
    /\ lastEvent.kind = "query"
    /\ where = NoWhere
    /\ ~hasWhereParam
    /\ before = "where"
    /\ visibleDrawer = "where"

\* The label of n fields: searchBy(l0), ", li" for 0 < i < n-1, " or l(n-1)"
\* for n >= 2; searchBy(title label) for n = 0.
RECURSIVE MiddleLabels(_, _, _)
MiddleLabels(fields, i, lang) ==
    IF i >= Len(fields) THEN <<>>
    ELSE <<", ", getTranslation(LabelOrName(fields[i]), lang)>>
            \o MiddleLabels(fields, i + 1, lang)

ExpectedLabel(fields, lang, title) ==
    LET n == Len(fields)
    IN  IF n = 0 THEN SearchBy(lang, searchLabel(title, lang))
        ELSE SearchBy(lang, getTranslation(LabelOrName(fields[1]), lang))
                \o MiddleLabels(fields, 2, lang)
                \o (IF n >= 2
                    THEN <<" ", Or(lang), " ",
                           getTranslation(LabelOrName(fields[n]), lang)>>
                    ELSE <<>>)

\* C9: the search label is recomputed for the current searchable fields and
\* locale, and the label handed to the search field is that label.
C9_LabelIsCurrent ==
    /\ searchLabelTranslated = ExpectedLabel(listSearchableFields, locale, titleField)
    /\ rendered.label = ExpectedLabel(listSearchableFields, locale, titleField)

\* The part of C9 the code keeps: after the effects the ref holds the label
\* of the current searchable fields and locale.
C9_RefIsCurrent ==
    searchLabelTranslated = ExpectedLabel(listSearchableFields, locale, titleField)

====
